---- MODULE Spec2Model ----
(***************************************************************************)
(* Model of app/models.py: the tensor shapes, the data flow and the        *)
(* storage effects of the forward passes of the SE gates, the bottleneck   *)
(* blocks, the Down/Up blocks and the five architectures.                  *)
(*                                                                         *)
(* A tensor is a handle [id, shape] on a buffer of the runtime's heap.     *)
(* A buffer is the sequence of the versions it has held; a version is the  *)
(* node [op, mod, args, shape] that wrote it: the operation, the path of   *)
(* the module that ran it, the <<buffer, version>> pairs it read and the   *)
(* shape it wrote.  An out-of-place operation allocates a buffer, an       *)
(* in-place one appends a version to the buffer it is given, a view shares *)
(* the buffer.  Element values are not modelled: a value is the expression *)
(* of operations over the inputs that computed it.  The library operations *)
(* raise as torch raises: on mismatched sizes, on a pooling or convolution *)
(* window larger than its input, and in batch normalisation in training    *)
(* mode on a single value per channel.                                     *)
(***************************************************************************)
EXTENDS Integers, Sequences, FiniteSets, TLC

\* ------------------------------------------------------------ bounds
MaxBatch == 2
MaxIO == 2
MaxLen == 31
MaxSize == 10
MaxOctave == 8
MaxChan == 4
MaxBlockSize == 2
MaxCoarse == 2
MaxDiff == 2
MaxUpMul == 1

Batches == 1..MaxBatch
\* spatial sizes of the 2-D architectures' inputs: every small one, and the
\* multiples of 8 up to 8 * MaxOctave
Sizes == (1..MaxSize) \cup {8 * k : k \in 1..MaxOctave}
\* channel counts a default SENextBottleneck2d (reduction 4) can be built with
UpChans == {4 * k : k \in 1..MaxUpMul}

\* ------------------------------------------------------- the runtime
None == [id |-> 0, shape |-> <<>>]

NoError == "ok"
ShapeError == "RuntimeError"
AttributeError == "AttributeError"
ValueError == "ValueError"

\* training is the flag nn.Module.train() and eval() set on a whole module tree:
\* True in a module as constructed
Runtime(training) ==
    [heap |-> <<>>, stats |-> {}, err |-> NoError, ret |-> None, training |-> training]

EmptyRuntime == Runtime(TRUE)

Ok(m) == m.err = NoError

Fail(m, why) == [m EXCEPT !.err = why, !.ret = None]

\* the version of x's buffer that a read of x sees now
Ref(m, x) == <<x.id, Len(m.heap[x.id])>>

\* a fresh tensor written by op
Alloc(m, op, path, args, shape) ==
    [m EXCEPT !.heap = Append(@, <<[op |-> op, mod |-> path, args |-> args, shape |-> shape]>>),
              !.ret = [id |-> Len(m.heap) + 1, shape |-> shape]]

\* an in-place write of x's own buffer
InPlace(m, op, path, x) ==
    [m EXCEPT !.heap[x.id] = Append(@, [op |-> op, mod |-> path, args |-> <<Ref(m, x)>>,
                                        shape |-> x.shape]),
              !.ret = x]

\* a tensor handed in by the caller
NewInput(m, shape) == Alloc(m, "input", <<>>, <<>>, shape)

Max2(a, b) == IF a >= b THEN a ELSE b

\* Python's // on integers
FloorDiv(a, b) == a \div b

\* ------------------------------------------------- library operations
ConvOut(L, k, s, p, d) == ((L + 2 * p - d * (k - 1) - 1) \div s) + 1

\* nn.Conv1d / nn.Conv2d: rank is 3 or 4, the same kernel on every axis
ConvNd(m, path, x, rank, cin, cout, k, s, p, d) ==
    IF ~Ok(m) THEN m
    ELSE IF Len(x.shape) # rank \/ x.shape[2] # cin THEN Fail(m, ShapeError)
    ELSE IF \E i \in 3..rank : x.shape[i] + 2 * p < d * (k - 1) + 1 THEN Fail(m, ShapeError)
    ELSE Alloc(m, "conv", path, <<Ref(m, x)>>,
               [i \in 1..rank |-> IF i = 1 THEN x.shape[1]
                                  ELSE IF i = 2 THEN cout
                                  ELSE ConvOut(x.shape[i], k, s, p, d)])

ConvTransposeOut(L, k, s, p) == (L - 1) * s - 2 * p + (k - 1) + 1

\* nn.ConvTranspose1d / nn.ConvTranspose2d
ConvTransposeNd(m, path, x, rank, cin, cout, k, s, p) ==
    IF ~Ok(m) THEN m
    ELSE IF Len(x.shape) # rank \/ x.shape[2] # cin THEN Fail(m, ShapeError)
    ELSE IF \E i \in 3..rank : ConvTransposeOut(x.shape[i], k, s, p) < 1 THEN Fail(m, ShapeError)
    ELSE Alloc(m, "conv_transpose", path, <<Ref(m, x)>>,
               [i \in 1..rank |-> IF i = 1 THEN x.shape[1]
                                  ELSE IF i = 2 THEN cout
                                  ELSE ConvTransposeOut(x.shape[i], k, s, p)])

RECURSIVE Numel(_)
Numel(shape) == IF shape = <<>> THEN 1 ELSE Head(shape) * Numel(Tail(shape))

\* nn.BatchNorm1d / nn.BatchNorm2d: same shape.  In training mode it needs
\* more than one value per channel and updates the running statistics
BatchNormNd(m, path, x, rank, c) ==
    IF ~Ok(m) THEN m
    ELSE IF Len(x.shape) # rank \/ x.shape[2] # c THEN Fail(m, ShapeError)
    ELSE IF m.training /\ Numel(x.shape) = x.shape[2] THEN Fail(m, ValueError)
    ELSE [Alloc(m, "bn", path, <<Ref(m, x)>>, x.shape) EXCEPT
              !.stats = IF m.training THEN @ \cup {path} ELSE @]

\* an elementwise function that returns a new tensor
Elementwise(m, op, path, x) ==
    IF ~Ok(m) THEN m ELSE Alloc(m, op, path, <<Ref(m, x)>>, x.shape)

\* ReLU(inplace=True)
ReLU_(m, path, x) ==
    IF ~Ok(m) THEN m ELSE InPlace(m, "relu_", path, x)

PoolOut(L, k, s) == ((L - k) \div s) + 1

\* nn.MaxPool / nn.AvgPool / F.avg_pool with kernel k and stride s
PoolNd(m, op, path, x, k, s) ==
    IF ~Ok(m) THEN m
    ELSE IF \E i \in 3..Len(x.shape) : x.shape[i] < k THEN Fail(m, ShapeError)
    ELSE Alloc(m, op, path, <<Ref(m, x)>>,
               [i \in 1..Len(x.shape) |-> IF i <= 2 THEN x.shape[i]
                                          ELSE PoolOut(x.shape[i], k, s)])

\* nn.AdaptiveAvgPool1d(1) / nn.AdaptiveAvgPool2d(1)
AdaptiveAvgPool(m, path, x) ==
    IF ~Ok(m) THEN m
    ELSE Alloc(m, "adaptive_avg_pool", path, <<Ref(m, x)>>,
               [i \in 1..Len(x.shape) |-> IF i <= 2 THEN x.shape[i] ELSE 1])

\* nn.Upsample(scale_factor=2)
Upsample(m, path, x) ==
    IF ~Ok(m) THEN m
    ELSE IF Len(x.shape) < 3 THEN Fail(m, ShapeError)
    ELSE Alloc(m, "upsample", path, <<Ref(m, x)>>,
               [i \in 1..Len(x.shape) |-> IF i <= 2 THEN x.shape[i] ELSE 2 * x.shape[i]])

Broadcastable(a, b) ==
    /\ Len(a) = Len(b)
    /\ \A i \in 1..Len(a) : a[i] = b[i] \/ a[i] = 1 \/ b[i] = 1

\* a * b, a + b: the operands are broadcast against each other
Binary(m, op, path, a, b) ==
    IF ~Ok(m) THEN m
    ELSE IF ~Broadcastable(a.shape, b.shape) THEN Fail(m, ShapeError)
    ELSE Alloc(m, op, path, <<Ref(m, a), Ref(m, b)>>,
               [i \in 1..Len(a.shape) |-> Max2(a.shape[i], b.shape[i])])

\* torch.cat([a, b], dim=1)
Cat(m, path, a, b) ==
    IF ~Ok(m) THEN m
    ELSE IF \/ Len(a.shape) # Len(b.shape)
            \/ \E i \in 1..Len(a.shape) : i # 2 /\ a.shape[i] # b.shape[i]
         THEN Fail(m, ShapeError)
    ELSE Alloc(m, "cat", path, <<Ref(m, a), Ref(m, b)>>,
               [a.shape EXCEPT ![2] = a.shape[2] + b.shape[2]])

\* F.pad(x, pads): pads = <<left, right>> of the last axis, then of the axis
\* before it, ...; a negative amount crops
PadAmount(x, pads, i) ==
    LET j == Len(x.shape) - i IN
    IF 2 * j + 2 <= Len(pads) THEN pads[2 * j + 1] + pads[2 * j + 2] ELSE 0

Pad(m, path, x, pads) ==
    IF ~Ok(m) THEN m
    ELSE IF \E i \in 1..Len(x.shape) : x.shape[i] + PadAmount(x, pads, i) < 0
         THEN Fail(m, ShapeError)
    ELSE Alloc(m, "pad", path, <<Ref(m, x)>>,
               [i \in 1..Len(x.shape) |-> x.shape[i] + PadAmount(x, pads, i)])


\* x.view(shape): the same buffer under another shape
View(m, x, shape) ==
    IF ~Ok(m) THEN m
    ELSE IF Numel(shape) # Numel(x.shape) THEN Fail(m, ShapeError)
    ELSE [m EXCEPT !.ret = [id |-> x.id, shape |-> shape]]

\* e is evaluated once and named in body: a local variable of a forward
Let(e, body(_)) == CHOOSE r \in {body(v) : v \in {e}} : TRUE

\* ------------------------------------------------------------ ConvBR
ConvBR2d(in_channels, out_channels, kernel_size, padding, dilation, stride, is_activation) ==
    [in_channels |-> in_channels, out_channels |-> out_channels,
     kernel_size |-> kernel_size, padding |-> padding, dilation |-> dilation,
     stride |-> stride, is_activation |-> is_activation]

\* faulty variant: the activation is applied, in place, before the convolution
ConvBR2d_forward_preactivated(m, self, path, x) ==
    Let(IF self.is_activation THEN ReLU_(m, path \o <<"activation">>, x)
                              ELSE [m EXCEPT !.ret = x], LAMBDA m0 :
    Let(ConvNd(m0, path \o <<"conv">>, m0.ret, 4, self.in_channels, self.out_channels,
               self.kernel_size, self.stride, self.padding, self.dilation), LAMBDA m1 :
    BatchNormNd(m1, path \o <<"bn">>, m1.ret, 4, self.out_channels)))

ConvBR2d_forward(m, self, path, x) ==
    Let(ConvNd(m, path \o <<"conv">>, x, 4, self.in_channels, self.out_channels,
               self.kernel_size, self.stride, self.padding, self.dilation), LAMBDA m1 :
    Let(BatchNormNd(m1, path \o <<"bn">>, m1.ret, 4, self.out_channels), LAMBDA m2 :
    IF self.is_activation THEN ReLU_(m2, path \o <<"activation">>, m2.ret) ELSE m2))

ConvBR1d(in_channels, out_channels, kernel_size, padding, dilation, stride, is_activation) ==
    [in_channels |-> in_channels, out_channels |-> out_channels,
     kernel_size |-> kernel_size, padding |-> padding, dilation |-> dilation,
     stride |-> stride, is_activation |-> is_activation]

ConvBR1d_forward(m, self, path, x) ==
    Let(ConvNd(m, path \o <<"conv">>, x, 3, self.in_channels, self.out_channels,
               self.kernel_size, self.stride, self.padding, self.dilation), LAMBDA m1 :
    Let(BatchNormNd(m1, path \o <<"bn">>, m1.ret, 3, self.out_channels), LAMBDA m2 :
    IF self.is_activation THEN ReLU_(m2, path \o <<"activation">>, m2.ret) ELSE m2))

\* ---------------------------------------------------------- SE gates
SSE2d(in_channels) == [in_channels |-> in_channels]

SSE2d_forward(m, self, path, x) ==
    Let(ConvNd(m, path \o <<"se", "0">>, x, 4, self.in_channels, 1, 1, 1, 0, 1), LAMBDA m1 :
    Let(Elementwise(m1, "sigmoid", path \o <<"se", "1">>, m1.ret), LAMBDA m2 :
    Binary(m2, "mul", path, x, m2.ret)))

\* faulty variant: the squeezed width is rounded up
CSE2d_rounded_up(in_channels, reduction) ==
    [in_channels |-> in_channels, reduction |-> reduction,
     squeezed |-> FloorDiv(in_channels + reduction - 1, reduction)]

\* squeezed is the width in_channels // reduction of se[1] and se[3]; reduction
\* is the argument as given, which __init__ does not validate
CSE2d(in_channels, reduction) ==
    [in_channels |-> in_channels, reduction |-> reduction,
     squeezed |-> FloorDiv(in_channels, reduction)]

CSE2d_forward(m, self, path, x) ==
    Let(AdaptiveAvgPool(m, path \o <<"se", "0">>, x), LAMBDA m1 :
    Let(ConvNd(m1, path \o <<"se", "1">>, m1.ret, 4,
               self.in_channels, self.squeezed, 1, 1, 0, 1), LAMBDA m2 :
    Let(ReLU_(m2, path \o <<"se", "2">>, m2.ret), LAMBDA m3 :
    Let(ConvNd(m3, path \o <<"se", "3">>, m3.ret, 4,
               self.squeezed, self.in_channels, 1, 1, 0, 1), LAMBDA m4 :
    Let(Elementwise(m4, "sigmoid", path \o <<"se", "4">>, m4.ret), LAMBDA m5 :
    Binary(m5, "mul", path, x, m5.ret))))))

SCSE2d(in_channels, reduction) ==
    [c_se |-> CSE2d(in_channels, reduction), s_se |-> SSE2d(in_channels)]

\* faulty variant: the spatial gate is run on the channel gate's output
SCSE2d_forward_chained(m, self, path, x) ==
    Let(CSE2d_forward(m, self.c_se, path \o <<"c_se">>, x), LAMBDA m1 :
    SSE2d_forward(m1, self.s_se, path \o <<"s_se">>, m1.ret))

SCSE2d_forward(m, self, path, x) ==
    Let(CSE2d_forward(m, self.c_se, path \o <<"c_se">>, x), LAMBDA m1 :
    Let(SSE2d_forward(m1, self.s_se, path \o <<"s_se">>, x), LAMBDA m2 :
    Binary(m2, "add", path, m1.ret, m2.ret)))

SSE1d(in_channels) == [in_channels |-> in_channels]

SSE1d_forward(m, self, path, x) ==
    Let(ConvNd(m, path \o <<"se", "0">>, x, 3, self.in_channels, 1, 1, 1, 0, 1), LAMBDA m1 :
    Let(Elementwise(m1, "sigmoid", path \o <<"se", "1">>, m1.ret), LAMBDA m2 :
    Binary(m2, "mul", path, x, m2.ret)))

CSE1d(in_channels, reduction) ==
    [in_channels |-> in_channels, reduction |-> reduction,
     squeezed |-> FloorDiv(in_channels, reduction)]

CSE1d_forward(m, self, path, x) ==
    Let(AdaptiveAvgPool(m, path \o <<"se", "0">>, x), LAMBDA m1 :
    Let(ConvNd(m1, path \o <<"se", "1">>, m1.ret, 3,
               self.in_channels, self.squeezed, 1, 1, 0, 1), LAMBDA m2 :
    Let(ReLU_(m2, path \o <<"se", "2">>, m2.ret), LAMBDA m3 :
    Let(ConvNd(m3, path \o <<"se", "3">>, m3.ret, 3,
               self.squeezed, self.in_channels, 1, 1, 0, 1), LAMBDA m4 :
    Let(Elementwise(m4, "sigmoid", path \o <<"se", "4">>, m4.ret), LAMBDA m5 :
    Binary(m5, "mul", path, x, m5.ret))))))

SCSE1d(in_channels, reduction) ==
    [c_se |-> CSE1d(in_channels, reduction), s_se |-> SSE1d(in_channels)]

SCSE1d_forward(m, self, path, x) ==
    Let(CSE1d_forward(m, self.c_se, path \o <<"c_se">>, x), LAMBDA m1 :
    Let(SSE1d_forward(m1, self.s_se, path \o <<"s_se">>, x), LAMBDA m2 :
    Binary(m2, "add", path, m1.ret, m2.ret)))

\* ------------------------------------------------------ SENextBottleneck
\* forward reads self.shortcut only if is_shortcut and self.pool only if stride > 1
SENextBottleneck2d(in_channels, out_channels, stride, reduction, dilation, padding, pool, is_shortcut) ==
    [conv1 |-> ConvBR2d(in_channels, out_channels, 3, padding, dilation, 1, TRUE),
     conv2 |-> ConvBR2d(in_channels, out_channels, 3, padding, dilation, 1, TRUE),
     se |-> CSE2d(out_channels, reduction),
     stride |-> stride,
     is_shortcut |-> is_shortcut,
     shortcut |-> ConvBR2d(in_channels, out_channels, 1, 0, 1, 1, FALSE),
     pool |-> IF stride > 1 THEN pool ELSE "none"]

\* faulty variant: the projection is applied whether or not is_shortcut is set
SENextBottleneck2d_shortcut_always(m, self, path, x) ==
    Let(IF self.stride > 1
        THEN PoolNd(m, "avg", path, x, self.stride, self.stride)
        ELSE [m EXCEPT !.ret = x], LAMBDA m1 :
    ConvBR2d_forward(m1, self.shortcut, path \o <<"shortcut">>, m1.ret))

\* lines 189-192: the shortcut path, x itself when is_shortcut is False
SENextBottleneck2d_shortcut(m, self, path, x) ==
    IF self.is_shortcut
    THEN Let(IF self.stride > 1
             THEN PoolNd(m, "avg", path, x, self.stride, self.stride)
             ELSE [m EXCEPT !.ret = x], LAMBDA m1 :
         ConvBR2d_forward(m1, self.shortcut, path \o <<"shortcut">>, m1.ret))
    ELSE [m EXCEPT !.ret = x]

\* faulty variant: conv2 is run on conv1's output
SENextBottleneck2d_forward_chained(m, self, path, x) ==
    Let(ConvBR2d_forward(m, self.conv1, path \o <<"conv1">>, x), LAMBDA m1 :
    Let(ConvBR2d_forward(m1, self.conv2, path \o <<"conv2">>, m1.ret), LAMBDA m2 :
    Let(IF self.stride > 1
        THEN PoolNd(m2, self.pool, path \o <<"pool">>, m2.ret, self.stride, self.stride)
        ELSE m2, LAMBDA m3 :
    Let(CSE2d_forward(m3, self.se, path \o <<"se">>, m3.ret), LAMBDA m4 :
    Let(SENextBottleneck2d_shortcut(m4, self, path, x), LAMBDA m5 :
    Let(Binary(m5, "add", path, m5.ret, m4.ret), LAMBDA m6 :
    ReLU_(m6, path \o <<"activation">>, m6.ret)))))))

SENextBottleneck2d_forward(m, self, path, x) ==
    Let(ConvBR2d_forward(m, self.conv1, path \o <<"conv1">>, x), LAMBDA m1 :
    Let(ConvBR2d_forward(m1, self.conv2, path \o <<"conv2">>, x), LAMBDA m2 :
    Let(IF self.stride > 1
        THEN PoolNd(m2, self.pool, path \o <<"pool">>, m2.ret, self.stride, self.stride)
        ELSE m2, LAMBDA m3 :
    Let(CSE2d_forward(m3, self.se, path \o <<"se">>, m3.ret), LAMBDA m4 :
    Let(SENextBottleneck2d_shortcut(m4, self, path, x), LAMBDA m5 :
    Let(Binary(m5, "add", path, m5.ret, m4.ret), LAMBDA m6 :
    ReLU_(m6, path \o <<"activation">>, m6.ret)))))))

SENextBottleneck1d(in_channels, out_channels, stride, reduction, pool, is_shortcut) ==
    [conv1 |-> ConvBR1d(in_channels, out_channels, 3, 1, 1, 1, TRUE),
     conv2 |-> ConvBR1d(out_channels, out_channels, 3, 1, 1, 1, TRUE),
     se |-> SCSE1d(out_channels, reduction),
     stride |-> stride,
     is_shortcut |-> is_shortcut,
     shortcut |-> ConvBR1d(in_channels, out_channels, 1, 0, 1, 1, FALSE),
     pool |-> IF stride > 1 THEN pool ELSE "none"]

\* lines 238-241: the shortcut path, x itself when is_shortcut is False
SENextBottleneck1d_shortcut(m, self, path, x) ==
    IF self.is_shortcut
    THEN Let(IF self.stride > 1
             THEN PoolNd(m, "avg", path, x, self.stride, self.stride)
             ELSE [m EXCEPT !.ret = x], LAMBDA m1 :
         ConvBR1d_forward(m1, self.shortcut, path \o <<"shortcut">>, m1.ret))
    ELSE [m EXCEPT !.ret = x]

SENextBottleneck1d_forward(m, self, path, x) ==
    Let(ConvBR1d_forward(m, self.conv1, path \o <<"conv1">>, x), LAMBDA m1 :
    Let(ConvBR1d_forward(m1, self.conv2, path \o <<"conv2">>, m1.ret), LAMBDA m2 :
    Let(IF self.stride > 1
        THEN PoolNd(m2, self.pool, path \o <<"pool">>, m2.ret, self.stride, self.stride)
        ELSE m2, LAMBDA m3 :
    Let(SCSE1d_forward(m3, self.se, path \o <<"se">>, m3.ret), LAMBDA m4 :
    Let(SENextBottleneck1d_shortcut(m4, self, path, x), LAMBDA m5 :
    Let(Binary(m5, "add", path, m5.ret, m4.ret), LAMBDA m6 :
    ReLU_(m6, path \o <<"activation">>, m6.ret)))))))

\* ------------------------------------------------------------ Down / Up
Down1d(in_channels, out_channels, pool) ==
    [block0 |-> SENextBottleneck1d(in_channels, out_channels, 2, 16, pool, TRUE)]

Down1d_forward(m, self, path, x) ==
    SENextBottleneck1d_forward(m, self.block0, path \o <<"block", "0">>, x)

Down2d(in_channels, out_channels, pool) ==
    [block0 |-> SENextBottleneck2d(in_channels, out_channels, 2, 4, 1, 1, pool, TRUE),
     block1 |-> SENextBottleneck2d(out_channels, out_channels, 1, 4, 1, 1, "max", FALSE)]

Down2d_forward(m, self, path, x) ==
    Let(SENextBottleneck2d_forward(m, self.block0, path \o <<"block", "0">>, x), LAMBDA m1 :
    SENextBottleneck2d_forward(m1, self.block1, path \o <<"block", "1">>, m1.ret))

Up1d(in_channels, out_channels, bilinear, merge) ==
    [merge |-> merge,
     bilinear |-> bilinear,
     in_channels |-> in_channels,
     conv1 |-> IF merge
               THEN ConvBR1d(in_channels + out_channels, out_channels, 3, 1, 1, 1, TRUE)
               ELSE ConvBR1d(in_channels, out_channels, 3, 1, 1, 1, TRUE),
     conv2 |-> ConvBR1d(out_channels, out_channels, 3, 1, 1, 1, TRUE)]

\* line 367
Up1d_diff(x1, x2) == x2.shape[3] - x1.shape[3]

\* faulty variant: both sides get diff // 2
Up1d_pads_even(diff) == <<FloorDiv(diff, 2), FloorDiv(diff, 2)>>

\* faulty variant: the head amount is diff / 2 rounded toward zero
Up1d_pads_trunc(diff) ==
    <<IF diff >= 0 THEN diff \div 2 ELSE -((-diff) \div 2),
      diff - (IF diff >= 0 THEN diff \div 2 ELSE -((-diff) \div 2))>>

\* the two amounts handed to F.pad at line 368
Up1d_pads(diff) == <<FloorDiv(diff, 2), diff - FloorDiv(diff, 2)>>

\* self.up, lines 350-355
Up1d_up(m, self, path, x1) ==
    IF self.bilinear
    THEN Upsample(m, path \o <<"up">>, x1)
    ELSE ConvTransposeNd(m, path \o <<"up">>, x1, 3, self.in_channels, self.in_channels, 2, 2, 0)

Up1d_forward(m, self, path, x1, x2) ==
    Let(Up1d_up(m, self, path, x1), LAMBDA m1 :
    IF ~Ok(m1) THEN m1 ELSE
    Let(Pad(m1, path, m1.ret, Up1d_pads(Up1d_diff(m1.ret, x2))), LAMBDA m2 :
    Let(IF self.merge THEN Cat(m2, path, x2, m2.ret) ELSE m2, LAMBDA m3 :
    Let(ConvBR1d_forward(m3, self.conv1, path \o <<"conv1">>, m3.ret), LAMBDA m4 :
    ConvBR1d_forward(m4, self.conv2, path \o <<"conv2">>, m4.ret)))))

Up2d(in_channels, out_channels, bilinear, merge) ==
    [merge |-> merge,
     bilinear |-> bilinear,
     in_channels |-> in_channels,
     conv1 |-> IF merge
               THEN ConvBR2d(in_channels + out_channels, in_channels, 3, 1, 1, 1, TRUE)
               ELSE ConvBR2d(in_channels, in_channels, 3, 1, 1, 1, TRUE),
     conv2 |-> SENextBottleneck2d(in_channels, out_channels, 1, 4, 1, 1, "max", TRUE)]

\* line 409
Up2d_diff_h(x1, x2) == x2.shape[3] - x1.shape[3]

\* line 410
Up2d_diff_w(x1, x2) == x2.shape[4] - x1.shape[4]

\* the tuple handed to F.pad at line 411: two amounts, so F.pad applies both
\* to the last axis
Up2d_pads(diff_h, diff_w) ==
    <<diff_h - FloorDiv(diff_h, 2), diff_w - FloorDiv(diff_w, 2)>>

\* self.up, lines 393-398
Up2d_up(m, self, path, x1) ==
    IF self.bilinear
    THEN Upsample(m, path \o <<"up">>, x1)
    ELSE ConvTransposeNd(m, path \o <<"up">>, x1, 4, self.in_channels, self.in_channels, 2, 2, 0)

\* lines 408-411: x1 upsampled and padded
Up2d_align(m, self, path, x1, x2) ==
    Let(Up2d_up(m, self, path, x1), LAMBDA m1 :
    IF ~Ok(m1) THEN m1 ELSE
    Pad(m1, path, m1.ret, Up2d_pads(Up2d_diff_h(m1.ret, x2), Up2d_diff_w(m1.ret, x2))))

Up2d_forward(m, self, path, x1, x2) ==
    Let(Up2d_align(m, self, path, x1, x2), LAMBDA m2 :
    Let(IF self.merge THEN Cat(m2, path, x2, m2.ret) ELSE m2, LAMBDA m3 :
    Let(ConvBR2d_forward(m3, self.conv1, path \o <<"conv1">>, m3.ret), LAMBDA m4 :
    SENextBottleneck2d_forward(m4, self.conv2, path \o <<"conv2">>, m4.ret))))

\* -------------------------------------------------------- architectures
\* the local variables of a forward pass; a variable not yet assigned is None
NoLocals ==
    [x |-> None, n0 |-> None, n1 |-> None, n2 |-> None, n3 |-> None, n4 |-> None,
     n |-> None, input_shape |-> <<>>]

\* the result of one statement: the runtime and the locals after it
After(m, l) == [m |-> m, loc |-> l]

UNet1d_base_channel == 128

UNet1d(in_channels, out_channels) ==
    [in_channels |-> in_channels,
     out_channels |-> out_channels,
     down1 |-> Down1d(UNet1d_base_channel, UNet1d_base_channel * 2, "max"),
     down2 |-> Down1d(UNet1d_base_channel * 2, UNet1d_base_channel * 4, "max"),
     down3 |-> Down1d(UNet1d_base_channel * 4, UNet1d_base_channel * 8, "max"),
     down4 |-> Down1d(UNet1d_base_channel * 8, UNet1d_base_channel * 16, "max"),
     center |-> SENextBottleneck1d(UNet1d_base_channel * 16, UNet1d_base_channel * 16,
                                   1, 16, "max", FALSE),
     up4 |-> Up1d(UNet1d_base_channel * 16, UNet1d_base_channel * 8, FALSE, TRUE),
     up3 |-> Up1d(UNet1d_base_channel * 8, UNet1d_base_channel * 4, FALSE, TRUE),
     up2 |-> Up1d(UNet1d_base_channel * 4, UNet1d_base_channel * 2, FALSE, TRUE),
     up1 |-> Up1d(UNet1d_base_channel * 2, UNet1d_base_channel, FALSE, TRUE)]

\* the tensors handed to the decoder stages, lines 459-462
UNet1d_up4_inputs(l) == <<l.n4, l.n3>>

UNet1d_up3_inputs(l) == <<l.n3, l.n2>>

UNet1d_up2_inputs(l) == <<l.n2, l.n1>>

\* faulty variant: up1 continues from the running decoder output
UNet1d_up1_inputs_chained(l) == <<l.n, l.n0>>

UNet1d_up1_inputs(l) == <<l.n1, l.n0>>

UNet1d_first == 453
UNet1d_last == 464

\* the statement of UNet1d.forward at a source line
UNet1d_stmt(self, m, l, line) ==
    CASE line = 453 ->
           Let(ConvNd(m, <<"inc", "0">>, l.x, 3, self.in_channels,
                           UNet1d_base_channel, 3, 1, 2, 1), LAMBDA r :
           After(r, [l EXCEPT !.n0 = r.ret]))
      [] line = 454 ->
           Let(Down1d_forward(m, self.down1, <<"down1">>, l.n0), LAMBDA r :
           After(r, [l EXCEPT !.n1 = r.ret]))
      [] line = 455 ->
           Let(Down1d_forward(m, self.down2, <<"down2">>, l.n1), LAMBDA r :
           After(r, [l EXCEPT !.n2 = r.ret]))
      [] line = 456 ->
           Let(Down1d_forward(m, self.down3, <<"down3">>, l.n2), LAMBDA r :
           After(r, [l EXCEPT !.n3 = r.ret]))
      [] line = 457 ->
           Let(Down1d_forward(m, self.down4, <<"down4">>, l.n3), LAMBDA r :
           After(r, [l EXCEPT !.n4 = r.ret]))
      [] line = 458 ->
           Let(SENextBottleneck1d_forward(m, self.center, <<"center">>, l.n4), LAMBDA r :
           After(r, [l EXCEPT !.n4 = r.ret]))
      [] line = 459 ->
           Let(Up1d_forward(m, self.up4, <<"up4">>,
                            UNet1d_up4_inputs(l)[1], UNet1d_up4_inputs(l)[2]), LAMBDA r :
           After(r, [l EXCEPT !.n = r.ret]))
      [] line = 460 ->
           Let(Up1d_forward(m, self.up3, <<"up3">>,
                            UNet1d_up3_inputs(l)[1], UNet1d_up3_inputs(l)[2]), LAMBDA r :
           After(r, [l EXCEPT !.n = r.ret]))
      [] line = 461 ->
           Let(Up1d_forward(m, self.up2, <<"up2">>,
                            UNet1d_up2_inputs(l)[1], UNet1d_up2_inputs(l)[2]), LAMBDA r :
           After(r, [l EXCEPT !.n = r.ret]))
      [] line = 462 ->
           Let(Up1d_forward(m, self.up1, <<"up1">>,
                            UNet1d_up1_inputs(l)[1], UNet1d_up1_inputs(l)[2]), LAMBDA r :
           After(r, [l EXCEPT !.n = r.ret]))
      [] line = 463 ->
           Let(ConvNd(m, <<"outc", "0">>, l.n, 3, UNet1d_base_channel,
                      self.out_channels, 3, 1, 0, 1), LAMBDA m1 :
           Let(Elementwise(m1, "hardtanh", <<"outc", "1">>, m1.ret), LAMBDA r :
           After(r, [l EXCEPT !.x = r.ret])))
      [] OTHER -> After([m EXCEPT !.ret = l.x], l)

UNet2d_base_channel == 16

UNet2d(in_channels, out_channels) ==
    [in_channels |-> in_channels,
     down1 |-> Down2d(UNet2d_base_channel, UNet2d_base_channel * 2, "max"),
     down2 |-> Down2d(UNet2d_base_channel * 2, UNet2d_base_channel * 4, "max"),
     down3 |-> Down2d(UNet2d_base_channel * 4, UNet2d_base_channel * 8, "avg"),
     up3 |-> Up2d(UNet2d_base_channel * 8, UNet2d_base_channel * 4, TRUE, TRUE),
     up2 |-> Up2d(UNet2d_base_channel * 4, UNet2d_base_channel * 2, TRUE, TRUE),
     up1 |-> Up2d(UNet2d_base_channel * 2, UNet2d_base_channel, TRUE, TRUE),
     outc0 |-> SENextBottleneck2d(UNet2d_base_channel, UNet2d_base_channel,
                                  1, 4, 1, 1, "max", TRUE)]

\* the tensors handed to the decoder stages, lines 503-505
UNet2d_up3_inputs(l) == <<l.n3, l.n2>>

UNet2d_up2_inputs(l) == <<l.n2, l.n1>>

\* faulty variant: up1 continues from the running decoder output
UNet2d_up1_inputs_chained(l) == <<l.n, l.n0>>

UNet2d_up1_inputs(l) == <<l.n1, l.n0>>

\* faulty variant: the sum is returned without the exponential
UNet2d_residual_noexp(m, n, x) == Binary(m, "add", <<>>, n, x)

\* line 507: torch.exp(n + x)
UNet2d_residual(m, n, x) ==
    Let(Binary(m, "add", <<>>, n, x), LAMBDA m1 :
    Elementwise(m1, "exp", <<>>, m1.ret))

UNet2d_first == 496
UNet2d_last == 509

\* the statement of UNet2d.forward at a source line
UNet2d_stmt(self, m, l, line) ==
    CASE line = 496 -> After(m, [l EXCEPT !.input_shape = l.x.shape])
      [] line = 497 ->
           Let(View(m, l.x, <<l.x.shape[1], 1>> \o Tail(l.x.shape)), LAMBDA r :
           After(r, [l EXCEPT !.x = r.ret]))
      [] line = 498 ->
           Let(Elementwise(m, "log", <<>>, l.x), LAMBDA r :
           After(r, [l EXCEPT !.x = r.ret]))
      [] line = 499 ->
           Let(ConvNd(m, <<"inc", "0">>, l.x, 4, 1, UNet2d_base_channel, 3, 1, 1, 1), LAMBDA r :
           After(r, [l EXCEPT !.n0 = r.ret]))
      [] line = 500 ->
           Let(Down2d_forward(m, self.down1, <<"down1">>, l.n0), LAMBDA r :
           After(r, [l EXCEPT !.n1 = r.ret]))
      [] line = 501 ->
           Let(Down2d_forward(m, self.down2, <<"down2">>, l.n1), LAMBDA r :
           After(r, [l EXCEPT !.n2 = r.ret]))
      [] line = 502 ->
           Let(Down2d_forward(m, self.down3, <<"down3">>, l.n2), LAMBDA r :
           After(r, [l EXCEPT !.n3 = r.ret]))
      [] line = 503 ->
           Let(Up2d_forward(m, self.up3, <<"up3">>,
                            UNet2d_up3_inputs(l)[1], UNet2d_up3_inputs(l)[2]), LAMBDA r :
           After(r, [l EXCEPT !.n = r.ret]))
      [] line = 504 ->
           Let(Up2d_forward(m, self.up2, <<"up2">>,
                            UNet2d_up2_inputs(l)[1], UNet2d_up2_inputs(l)[2]), LAMBDA r :
           After(r, [l EXCEPT !.n = r.ret]))
      [] line = 505 ->
           Let(Up2d_forward(m, self.up1, <<"up1">>,
                            UNet2d_up1_inputs(l)[1], UNet2d_up1_inputs(l)[2]), LAMBDA r :
           After(r, [l EXCEPT !.n = r.ret]))
      [] line = 506 ->
           Let(SENextBottleneck2d_forward(m, self.outc0, <<"outc", "0">>, l.n), LAMBDA m1 :
           Let(ConvNd(m1, <<"outc", "1">>, m1.ret, 4, UNet2d_base_channel, 1, 1, 1, 0, 1), LAMBDA r :
           After(r, [l EXCEPT !.n = r.ret])))
      [] line = 507 ->
           Let(UNet2d_residual(m, l.n, l.x), LAMBDA r :
           After(r, [l EXCEPT !.x = r.ret]))
      [] line = 508 ->
           Let(View(m, l.x, l.input_shape), LAMBDA r :
           After(r, [l EXCEPT !.x = r.ret]))
      [] OTHER -> After([m EXCEPT !.ret = l.x], l)

ResNext1d_channels == <<1024, 2048>>

\* __init__ assigns self.inc and self.outc and nothing else
ResNext1d(in_channels, out_channels) ==
    [in_channels |-> in_channels,
     out_channels |-> out_channels,
     outc0 |-> ConvBR1d(ResNext1d_channels[2], ResNext1d_channels[2], 5, 2, 1, 1, TRUE),
     outc1 |-> ConvBR1d(ResNext1d_channels[2], out_channels, 3, 1, 1, 1, TRUE)]

\* faulty variant: the input reaches the stem as given
ResNext1d_compress_skipped(m, x) == [m EXCEPT !.ret = x]

\* line 544: x ** (1 / 2)
ResNext1d_compress(m, x) == Elementwise(m, "pow(1/2)", <<>>, x)

ResNext1d_first == 544
ResNext1d_last == 549

\* the statement of ResNext1d.forward at a source line; reading an attribute
\* the constructor never assigned raises AttributeError
ResNext1d_stmt(self, m, l, line) ==
    CASE line = 544 ->
           Let(ResNext1d_compress(m, l.x), LAMBDA r :
           After(r, [l EXCEPT !.x = r.ret]))
      [] line = 545 ->
           Let(ConvNd(m, <<"inc", "0">>, l.x, 3, self.in_channels,
                           ResNext1d_channels[1], 5, 1, 2, 1), LAMBDA r :
           After(r, [l EXCEPT !.n = r.ret]))
      [] line = 546 ->
           Let(IF "bottlenecks" \in DOMAIN self
                    THEN Elementwise(m, "call", <<"bottlenecks">>, l.n)
                    ELSE Fail(m, AttributeError), LAMBDA r :
           After(r, [l EXCEPT !.n = r.ret]))
      [] line = 547 ->
           Let(ConvBR1d_forward(m, self.outc0, <<"outc", "0">>, l.n), LAMBDA m1 :
           Let(ConvBR1d_forward(m1, self.outc1, <<"outc", "1">>, m1.ret), LAMBDA m2 :
           Let(ConvNd(m2, <<"outc", "2">>, m2.ret, 3, self.out_channels,
                      self.out_channels, 1, 1, 0, 1), LAMBDA r :
           After(r, [l EXCEPT !.n = r.ret]))))
      [] line = 548 ->
           Let(Binary(m, "add", <<>>, l.x, l.n), LAMBDA m1 :
           Let(Elementwise(m1, "pow(2)", <<>>, m1.ret), LAMBDA r :
           After(r, [l EXCEPT !.x = r.ret])))
      [] OTHER -> After([m EXCEPT !.ret = l.x], l)

Micro2d_channels == <<128, 256, 512, 1024, 2048>>

Micro2d(in_channels, out_channels) == [in_channels |-> in_channels]

\* self.inc of Micro2d, lines 556-569
Micro2d_inc(m, x) ==
    LET c == Micro2d_channels[1] IN
    Let(ConvNd(m, <<"inc", "0">>, x, 4, 1, c, 5, 1, 2, 1), LAMBDA m0 :
    Let(ReLU_(m0, <<"inc", "1">>, m0.ret), LAMBDA m1 :
    Let(ConvNd(m1, <<"inc", "2">>, m1.ret, 4, c, c, 3, 1, 1, 1), LAMBDA m2 :
    Let(ReLU_(m2, <<"inc", "3">>, m2.ret), LAMBDA m3 :
    Let(ConvTransposeNd(m3, <<"inc", "4">>, m3.ret, 4, c, c, 5, 1, 2), LAMBDA m4 :
    Let(ReLU_(m4, <<"inc", "5">>, m4.ret), LAMBDA m5 :
    Let(ConvTransposeNd(m5, <<"inc", "6">>, m5.ret, 4, c, c, 3, 1, 0), LAMBDA m6 :
    Let(ReLU_(m6, <<"inc", "7">>, m6.ret), LAMBDA m7 :
    Let(ConvNd(m7, <<"inc", "8">>, m7.ret, 4, c, 1, 3, 1, 0, 1), LAMBDA m8 :
    Elementwise(m8, "sigmoid", <<"inc", "9">>, m8.ret))))))))))

Micro2d_first == 572
Micro2d_last == 576

\* the statement of Micro2d.forward at a source line
Micro2d_stmt(self, m, l, line) ==
    CASE line = 572 -> After(m, [l EXCEPT !.input_shape = l.x.shape])
      [] line = 573 ->
           Let(View(m, l.x, <<l.x.shape[1], 1>> \o Tail(l.x.shape)), LAMBDA r :
           After(r, [l EXCEPT !.x = r.ret]))
      [] line = 574 ->
           Let(Micro2d_inc(m, l.x), LAMBDA r :
           After(r, [l EXCEPT !.x = r.ret]))
      [] line = 575 ->
           Let(View(m, l.x, l.input_shape), LAMBDA r :
           After(r, [l EXCEPT !.x = r.ret]))
      [] OTHER -> After([m EXCEPT !.ret = l.x], l)

ResNext2d_channels == <<128, 256, 512, 1024, 2048>>

ResNext2d(in_channels, out_channels) ==
    [in_channels |-> in_channels,
     inc0 |-> ConvBR2d(1, ResNext2d_channels[1], 5, 2, 1, 1, TRUE),
     inc1 |-> ConvBR2d(ResNext2d_channels[1], ResNext2d_channels[1], 3, 1, 1, 1, TRUE),
     bottlenecks0 |-> SENextBottleneck2d(ResNext2d_channels[1], ResNext2d_channels[2],
                                         1, 4, 1, 1, "max", TRUE),
     bottlenecks1 |-> SENextBottleneck2d(ResNext2d_channels[2], ResNext2d_channels[3],
                                         1, 4, 1, 1, "max", TRUE)]

ResNext2d_first == 615
ResNext2d_last == 622

\* the statement of ResNext2d.forward at a source line
ResNext2d_stmt(self, m, l, line) ==
    CASE line = 615 -> After(m, [l EXCEPT !.input_shape = l.x.shape])
      [] line = 616 ->
           Let(View(m, l.x, <<l.x.shape[1], 1>> \o Tail(l.x.shape)), LAMBDA r :
           After(r, [l EXCEPT !.x = r.ret]))
      [] line = 617 ->
           Let(ConvBR2d_forward(m, self.inc0, <<"inc", "0">>, l.x), LAMBDA m1 :
           Let(ConvBR2d_forward(m1, self.inc1, <<"inc", "1">>, m1.ret), LAMBDA r :
           After(r, [l EXCEPT !.n = r.ret])))
      [] line = 618 ->
           Let(SENextBottleneck2d_forward(m, self.bottlenecks0, <<"bottlenecks", "0">>, l.n), LAMBDA m1 :
           Let(SENextBottleneck2d_forward(m1, self.bottlenecks1, <<"bottlenecks", "1">>, m1.ret), LAMBDA r :
           After(r, [l EXCEPT !.n = r.ret])))
      [] line = 619 ->
           Let(ConvNd(m, <<"outc", "0">>, l.n, 4, ResNext2d_channels[3], 1, 1, 1, 0, 1), LAMBDA m1 :
           Let(Elementwise(m1, "sigmoid", <<"outc", "1">>, m1.ret), LAMBDA r :
           After(r, [l EXCEPT !.n = r.ret])))
      [] line = 620 ->
           Let(Binary(m, "add", <<>>, l.n, l.x), LAMBDA r :
           After(r, [l EXCEPT !.x = r.ret]))
      [] line = 621 ->
           Let(View(m, l.x, l.input_shape), LAMBDA r :
           After(r, [l EXCEPT !.x = r.ret]))
      [] OTHER -> After([m EXCEPT !.ret = l.x], l)

\* ------------------------------------------------------- state machine
VARIABLES
    call,     \* the module whose forward is being run
    self,     \* that module as its constructor built it
    args,     \* the tensors the caller handed to forward
    status,   \* "idle", "running", "returned" or "raised"
    pc,       \* the source line of the next statement of an architecture's forward
    rt,       \* the runtime: heap, running statistics touched, error raised
    loc,      \* the local variables of an architecture's forward
    out       \* the tensor forward returned

vars == <<call, self, args, status, pc, rt, loc, out>>

Init ==
    /\ call = "none"
    /\ self = [in_channels |-> 0]
    /\ args = <<>>
    /\ status = "idle"
    /\ pc = 0
    /\ rt = EmptyRuntime
    /\ loc = NoLocals
    /\ out = None

\* an architecture is constructed and its forward entered with x of this shape
Enter(name, module, shape, first, training) ==
    LET m == NewInput(Runtime(training), shape) IN
    /\ status = "idle"
    /\ call' = name
    /\ self' = module
    /\ args' = <<m.ret>>
    /\ status' = "running"
    /\ pc' = first
    /\ rt' = m
    /\ loc' = [NoLocals EXCEPT !.x = m.ret]
    /\ out' = None

\* the state after a statement with result r: an error propagates to the
\* caller, the return statement ends the call
StepTo(r, last) ==
    /\ rt' = r.m
    /\ IF ~Ok(r.m)
       THEN status' = "raised" /\ UNCHANGED <<pc, loc, out>>
       ELSE /\ loc' = r.loc
            /\ IF pc = last
               THEN status' = "returned" /\ out' = r.m.ret /\ pc' = pc
               ELSE pc' = pc + 1 /\ UNCHANGED <<status, out>>
    /\ UNCHANGED <<call, self, args>>

\* one statement of the running forward
Step(name, stmt, last) ==
    /\ call = name
    /\ status = "running"
    /\ \E r \in {stmt} : StepTo(r, last)

UNet1d_call ==
    /\ status = "idle"
    /\ \E training \in BOOLEAN, B \in Batches, ci \in 1..MaxIO, co \in 1..MaxIO, L \in 1..MaxLen :
           Enter("UNet1d", UNet1d(ci, co), <<B, ci, L>>, UNet1d_first, training)

UNet1d_step == Step("UNet1d", UNet1d_stmt(self, rt, loc, pc), UNet1d_last)

UNet2d_call ==
    /\ status = "idle"
    /\ \E training \in BOOLEAN, B \in Batches, H \in Sizes, W \in Sizes :
           Enter("UNet2d", UNet2d(1, 1), <<B, H, W>>, UNet2d_first, training)

UNet2d_step == Step("UNet2d", UNet2d_stmt(self, rt, loc, pc), UNet2d_last)

ResNext1d_call ==
    /\ status = "idle"
    /\ \E training \in BOOLEAN, B \in Batches, ci \in 1..MaxIO, co \in 1..MaxIO, L \in 1..MaxLen :
           Enter("ResNext1d", ResNext1d(ci, co), <<B, ci, L>>, ResNext1d_first, training)

ResNext1d_step == Step("ResNext1d", ResNext1d_stmt(self, rt, loc, pc), ResNext1d_last)

Micro2d_call ==
    /\ status = "idle"
    /\ \E training \in BOOLEAN, B \in Batches, H \in Sizes, W \in Sizes :
           Enter("Micro2d", Micro2d(1, 1), <<B, H, W>>, Micro2d_first, training)

Micro2d_step == Step("Micro2d", Micro2d_stmt(self, rt, loc, pc), Micro2d_last)

ResNext2d_call ==
    /\ status = "idle"
    /\ \E training \in BOOLEAN, B \in Batches, H \in Sizes, W \in Sizes :
           Enter("ResNext2d", ResNext2d(1, 1), <<B, H, W>>, ResNext2d_first, training)

ResNext2d_step == Step("ResNext2d", ResNext2d_stmt(self, rt, loc, pc), ResNext2d_last)

\* a block is constructed and its forward run on the tensors of these shapes
\* (run(m, xs) is the forward on the runtime m holding the inputs xs)
Block(name, module, shapes, training, run(_, _)) ==
    LET m0 == NewInput(Runtime(training), shapes[1])
        m1 == IF Len(shapes) > 1 THEN NewInput(m0, shapes[2]) ELSE m0
        xs == IF Len(shapes) > 1 THEN <<m0.ret, m1.ret>> ELSE <<m0.ret>>
    IN  /\ status = "idle"
        /\ \E r \in {run(m1, xs)} :
             /\ call' = name
             /\ self' = module
             /\ args' = xs
             /\ status' = IF Ok(r) THEN "returned" ELSE "raised"
             /\ rt' = r
             /\ out' = r.ret
             /\ UNCHANGED <<pc, loc>>

SENextBottleneck2d_call ==
    /\ status = "idle"
    /\ \E training \in BOOLEAN, B \in Batches, ci \in 1..MaxChan, co \in 1..MaxChan, stride \in 1..2,
          pool \in {"max", "avg"}, is_shortcut \in BOOLEAN,
          H \in 1..MaxBlockSize, W \in 1..MaxBlockSize :
         \E reduction \in 1..co :
           LET module == SENextBottleneck2d(ci, co, stride, reduction, 1, 1, pool, is_shortcut)
           IN  Block("SENextBottleneck2d", module, <<(<<B, ci, H, W>>)>>, training,
                     LAMBDA m, xs : SENextBottleneck2d_forward(m, module, <<>>, xs[1]))

SENextBottleneck1d_call ==
    /\ status = "idle"
    /\ \E training \in BOOLEAN, B \in Batches, ci \in 1..MaxChan, co \in 1..MaxChan, stride \in 1..2,
          pool \in {"max", "avg"}, is_shortcut \in BOOLEAN, L \in 1..MaxBlockSize :
         \E reduction \in 1..co :
           LET module == SENextBottleneck1d(ci, co, stride, reduction, pool, is_shortcut)
           IN  Block("SENextBottleneck1d", module, <<(<<B, ci, L>>)>>, training,
                     LAMBDA m, xs : SENextBottleneck1d_forward(m, module, <<>>, xs[1]))

SCSE2d_call ==
    /\ status = "idle"
    /\ \E training \in BOOLEAN, B \in Batches, c \in 1..MaxChan, H \in 1..MaxBlockSize, W \in 1..MaxBlockSize :
         \E reduction \in 1..c :
           LET module == SCSE2d(c, reduction)
           IN  Block("SCSE2d", module, <<(<<B, c, H, W>>)>>, training,
                     LAMBDA m, xs : SCSE2d_forward(m, module, <<>>, xs[1]))

SCSE1d_call ==
    /\ status = "idle"
    /\ \E training \in BOOLEAN, B \in Batches, c \in 1..MaxChan, L \in 1..MaxBlockSize :
         \E reduction \in 1..c :
           LET module == SCSE1d(c, reduction)
           IN  Block("SCSE1d", module, <<(<<B, c, L>>)>>, training,
                     LAMBDA m, xs : SCSE1d_forward(m, module, <<>>, xs[1]))

\* a channel gate is built with any reduction up to in_channels, dividing it or not
CSE2d_call ==
    /\ status = "idle"
    /\ \E training \in BOOLEAN, B \in Batches, c \in 1..MaxChan, H \in 1..MaxBlockSize, W \in 1..MaxBlockSize :
         \E reduction \in 1..c :
           LET module == CSE2d(c, reduction)
           IN  Block("CSE2d", module, <<(<<B, c, H, W>>)>>, training,
                     LAMBDA m, xs : CSE2d_forward(m, module, <<>>, xs[1]))

CSE1d_call ==
    /\ status = "idle"
    /\ \E training \in BOOLEAN, B \in Batches, c \in 1..MaxChan, L \in 1..MaxBlockSize :
         \E reduction \in 1..c :
           LET module == CSE1d(c, reduction)
           IN  Block("CSE1d", module, <<(<<B, c, L>>)>>, training,
                     LAMBDA m, xs : CSE1d_forward(m, module, <<>>, xs[1]))

\* x1 is the coarse input, x2 the skip input; merge=True concatenates x2
\* (out_channels wide) with the upsampled x1 (in_channels wide)
Up2d_call ==
    /\ status = "idle"
    /\ \E training \in BOOLEAN, B \in Batches, ci \in UpChans, co \in UpChans, bilinear \in BOOLEAN, merge \in BOOLEAN,
          h1 \in 1..MaxCoarse, w1 \in 1..MaxCoarse,
          dh \in -MaxDiff..MaxDiff, dw \in -MaxDiff..MaxDiff :
           LET module == Up2d(ci, co, bilinear, merge)
           IN  /\ 2 * h1 + dh >= 1
               /\ 2 * w1 + dw >= 1
               /\ Block("Up2d", module,
                        <<(<<B, ci, h1, w1>>), (<<B, co, 2 * h1 + dh, 2 * w1 + dw>>)>>, training,
                        LAMBDA m, xs : Up2d_forward(m, module, <<>>, xs[1], xs[2]))

Up1d_call ==
    /\ status = "idle"
    /\ \E training \in BOOLEAN, B \in Batches, ci \in 1..MaxIO, co \in 1..MaxIO, bilinear \in BOOLEAN, merge \in BOOLEAN,
          l1 \in 1..MaxCoarse, d \in -MaxDiff..MaxDiff :
           LET module == Up1d(ci, co, bilinear, merge)
           IN  /\ 2 * l1 + d >= 1
               /\ Block("Up1d", module, <<(<<B, ci, l1>>), (<<B, co, 2 * l1 + d>>)>>, training,
                        LAMBDA m, xs : Up1d_forward(m, module, <<>>, xs[1], xs[2]))

Next ==
    \/ UNet1d_call
    \/ UNet1d_step
    \/ UNet2d_call
    \/ UNet2d_step
    \/ ResNext1d_call
    \/ ResNext1d_step
    \/ Micro2d_call
    \/ Micro2d_step
    \/ ResNext2d_call
    \/ ResNext2d_step
    \/ SENextBottleneck2d_call
    \/ SENextBottleneck1d_call
    \/ CSE2d_call
    \/ CSE1d_call
    \/ SCSE2d_call
    \/ SCSE1d_call
    \/ Up2d_call
    \/ Up1d_call

Spec == Init /\ [][Next]_vars

\* ------------------------------------------------------- properties
Finished == status \in {"returned", "raised"}

\* the node that wrote version ref[2] of buffer ref[1]
Node(ref) == rt.heap[ref[1]][ref[2]]

\* what a read of tensor x sees at the end of the call
Current(x) == Ref(rt, x)

\* the input tensor, as the caller built it
Input == <<args[1].id, 1>>

(* C1: for every input (B, H, W) with B, H, W >= 1, the forward of UNet2d,  *)
(* of ResNext2d and of Micro2d completes and returns shape (B, H, W).       *)
C1_ShapeRoundTrip ==
    (call \in {"UNet2d", "ResNext2d", "Micro2d"} /\ Finished)
        => (status = "returned" /\ out.shape = args[1].shape)

\* the lengths UNet1d.forward records for an input of length L
UNet1d_lengths(L) ==
    LET l0 == L + 2
        l1 == l0 \div 2
        l2 == l1 \div 2
        l3 == l2 \div 2
    IN  <<l0, l1, l2, l3, l3 \div 2>>

(* C2: for every input (B, in_channels, L) with L >= 14, UNet1d.forward     *)
(* returns shape (B, out_channels, L): inc gives L + 2, each Down1d halves  *)
(* (floor), the deepest stage has length >= 1, the pad step of up1 restores *)
(* L + 2 and outc gives L.                                                  *)
C2_UNet1dLength ==
    (call = "UNet1d" /\ Finished /\ args[1].shape[3] >= 14)
        => /\ status = "returned"
           /\ out.shape = <<args[1].shape[1], self.out_channels, args[1].shape[3]>>
           /\ <<loc.n0.shape[3], loc.n1.shape[3], loc.n2.shape[3], loc.n3.shape[3],
                loc.n4.shape[3]>> = UNet1d_lengths(args[1].shape[3])
           /\ loc.n4.shape[3] >= 1
           /\ loc.n.shape[3] = args[1].shape[3] + 2

\* batch normalisation in training mode would see one value per channel in
\* the deepest encoder stage
UNet1d_starved ==
    rt.training /\ args[1].shape[1] * UNet1d_lengths(args[1].shape[3])[5] = 1

(* C2, amended: for L >= 14 UNet1d.forward returns shape (B, out_channels,  *)
(* L) by that arithmetic unless the module is in training mode and          *)
(* B * floor((L + 2) / 16) = 1 (B = 1 and L < 30): then the batch           *)
(* normalisation of down4's shortcut is handed a single value per channel   *)
(* and raises ValueError at line 457.                                       *)
C2_UNet1dLengthUnlessStarved ==
    (call = "UNet1d" /\ Finished /\ args[1].shape[3] >= 14)
        => IF UNet1d_starved
           THEN /\ status = "raised"
                /\ rt.err = ValueError
                /\ pc = 457
           ELSE /\ status = "returned"
                /\ out.shape = <<args[1].shape[1], self.out_channels, args[1].shape[3]>>
                /\ <<loc.n0.shape[3], loc.n1.shape[3], loc.n2.shape[3], loc.n3.shape[3],
                     loc.n4.shape[3]>> = UNet1d_lengths(args[1].shape[3])
                /\ loc.n4.shape[3] >= 1
                /\ loc.n.shape[3] = args[1].shape[3] + 2

\* a UNet1d forward in training mode that returned for an odd length: up1 had to pad
C2_Witness ==
    /\ rt.training
    /\ call = "UNet1d"
    /\ status = "returned"
    /\ args[1].shape = <<2, 2, 15>>
    /\ out.shape = <<2, 1, 15>>

(* C3: for every input (B, in_channels, L), ResNext1d.forward completes and *)
(* returns a rank-3 tensor (B, out_channels, L'): every submodule it        *)
(* invokes is one the constructor created.                                  *)
C3_ResNext1dCompletes ==
    (call = "ResNext1d" /\ Finished)
        => /\ status = "returned"
           /\ Len(out.shape) = 3
           /\ out.shape[1] = args[1].shape[1]
           /\ out.shape[2] = self.out_channels

\* a SENextBottleneck2d with is_shortcut=False, stride=1 and mismatched
\* channel counts has run
C4_Mismatched ==
    /\ call = "SENextBottleneck2d"
    /\ Finished
    /\ ~self.is_shortcut
    /\ self.stride = 1
    /\ self.conv1.in_channels # self.conv1.out_channels

(* C4: a SENextBottleneck2d with is_shortcut=False, stride=1 and            *)
(* in_channels # out_channels always fails with a shape error in forward.   *)
C4_MismatchAlwaysFails == C4_Mismatched => status = "raised"

(* C4, amended: such a block fails with a shape error, raised by the sum    *)
(* x + s, iff neither channel count is 1; when one of them is 1 the sum     *)
(* broadcasts and forward returns (B, max(in_channels, out_channels), H, W).*)
(* The one exception to both: in training mode with B * H * W = 1, conv1's  *)
(* batch normalisation raises ValueError first.                             *)
C4_MismatchFailsUnlessBroadcast ==
    C4_Mismatched =>
        IF rt.training /\ Numel(args[1].shape) = self.conv1.in_channels
        THEN /\ status = "raised"
             /\ rt.err = ValueError
             /\ Len(rt.heap) = 2
        ELSE IF self.conv1.in_channels = 1 \/ self.conv1.out_channels = 1
        THEN /\ status = "returned"
             /\ out.shape = [args[1].shape EXCEPT
                               ![2] = Max2(self.conv1.in_channels, self.conv1.out_channels)]
        ELSE /\ status = "raised"
             /\ rt.err = ShapeError
             /\ rt.heap[Len(rt.heap)][1].op = "mul"
             /\ rt.heap[Len(rt.heap)][1].mod = <<"se">>

\* the sum of a 2-channel x and a 3-channel s raised
C4_Witness ==
    /\ C4_Mismatched
    /\ rt.err = ShapeError
    /\ self.conv1.in_channels = 2
    /\ self.conv1.out_channels = 3
    /\ status = "raised"

\* the value of version ref[2] of buffer ref[1], as the expression over the
\* inputs that computed it
RECURSIVE Term(_, _)
Term(heap, ref) ==
    LET node == heap[ref[1]][ref[2]] IN
    [op |-> node.op, mod |-> node.mod, shape |-> node.shape,
     args |-> [i \in 1..Len(node.args) |-> Term(heap, node.args[i])]]

\* the value of the tensor a forward returned on runtime m
Result(m) == Term(m.heap, Ref(m, m.ret))

\* the caller's runtime before the call: it holds the input x alone
Before == NewInput(Runtime(rt.training), args[1].shape)

\* c + s, elementwise
C5_Sum(c, s) ==
    [op |-> "add", mod |-> <<>>, shape |-> args[1].shape, args |-> <<Result(c), Result(s)>>]

(* C5: SCSE2d.forward(x) = CSE2d(x) + SSE2d(x) and SCSE1d.forward(x) =      *)
(* CSE1d(x) + SSE1d(x): both gates read the x the caller passed, which no   *)
(* in-place activation has written, and the two results are added.          *)
C5_SCSEIsSum ==
    /\ (call = "SCSE2d" /\ Finished) =>
          /\ status = "returned"
          /\ Len(rt.heap[args[1].id]) = 1
          /\ Term(rt.heap, Current(out)) =
                C5_Sum(CSE2d_forward(Before, self.c_se, <<"c_se">>, args[1]),
                       SSE2d_forward(Before, self.s_se, <<"s_se">>, args[1]))
    /\ (call = "SCSE1d" /\ Finished) =>
          /\ status = "returned"
          /\ Len(rt.heap[args[1].id]) = 1
          /\ Term(rt.heap, Current(out)) =
                C5_Sum(CSE1d_forward(Before, self.c_se, <<"c_se">>, args[1]),
                       SSE1d_forward(Before, self.s_se, <<"s_se">>, args[1]))

\* SCSE2d returned for a 4-channel input squeezed to 2
C5_Witness ==
    /\ call = "SCSE2d"
    /\ status = "returned"
    /\ args[1].shape = <<2, 4, 2, 2>>
    /\ self.c_se.squeezed = 2
    /\ Node(Current(out)).op = "add"

\* every <<buffer, version>> of the heap
Refs == {ref \in (1..Len(rt.heap)) \X (1..3) : ref[2] <= Len(rt.heap[ref[1]])}

\* the versions written by operation op of the module at path
Written(path, op) == {ref \in Refs : Node(ref).mod = path /\ Node(ref).op = op}

\* a UNet2d forward has run on an input whose height and width are multiples
\* of 8, so that no Up2d had a size difference to pad
C6_Aligned ==
    /\ call = "UNet2d"
    /\ Finished
    /\ args[1].shape[2] % 8 = 0
    /\ args[1].shape[3] % 8 = 0

\* UNet2d returned the input's shape, written by exp of outc's output plus the
\* log of the input, and no Up2d had anything to pad
C6_Returned ==
    /\ status = "returned"
    /\ out.shape = args[1].shape
    /\ \A p \in Written(<<"up3">>, "pad") \cup Written(<<"up2">>, "pad")
                \cup Written(<<"up1">>, "pad") :
           Node(p).shape = Node(Node(p).args[1]).shape
    /\ Current(out) = <<out.id, 1>>
    /\ Node(Current(out)).op = "exp"
    /\ LET sum == Node(Node(Current(out)).args[1]) IN
       /\ sum.op = "add"
       /\ Node(sum.args[1]).op = "conv"
       /\ Node(sum.args[1]).mod = <<"outc", "1">>
       /\ Node(sum.args[2]).op = "log"
       /\ Node(sum.args[2]).args = <<Input>>

(* C6: UNet2d on a (B, H, W) input with every Up2d size difference zero,    *)
(* (2, 64, 64) among them, returns shape (B, H, W), and what it returns was *)
(* written by exp applied to the sum of outc's output and the log of the    *)
(* input: every element is an image of exp.                                 *)
C6_ExpOfLogResidual == C6_Aligned => C6_Returned

\* batch normalisation in training mode would see one value per channel in
\* the deepest encoder stage
UNet2d_starved ==
    rt.training /\ args[1].shape[1] * (args[1].shape[2] \div 8) * (args[1].shape[3] \div 8) = 1

(* C6, amended: the same, for every (B, H, W) with H and W multiples of 8   *)
(* (so that every Up2d size difference is zero) other than (1, 8, 8) in     *)
(* training mode, where the batch normalisation of down3's shortcut is      *)
(* handed a single value per channel and raises ValueError at line 502.     *)
C6_ExpOfLogResidualUnlessStarved ==
    C6_Aligned =>
        IF UNet2d_starved
        THEN status = "raised" /\ rt.err = ValueError /\ pc = 502
        ELSE C6_Returned

\* UNet2d in training mode returned for a (2, 64, 64) input
C6_Witness ==
    /\ C6_Aligned
    /\ rt.training
    /\ args[1].shape = <<2, 64, 64>>
    /\ status = "returned"
    /\ out.shape = <<2, 64, 64>>

\* the first convolution of the stem reads ref
StemReads(ref) ==
    \E c \in Written(<<"inc", "0">>, "conv") \cup Written(<<"inc", "0", "conv">>, "conv") :
        Node(c).args = <<ref>>

\* the stem has run
StemRan ==
    Written(<<"inc", "0">>, "conv") \cup Written(<<"inc", "0", "conv">>, "conv") # {}

\* ref is the square root of the input
SqrtOfInput(ref) == Node(ref).op = "pow(1/2)" /\ Node(ref).args = <<Input>>

(* C7: ResNext1d.forward and ResNext2d.forward both apply a square root to  *)
(* the input before the stem and return the square of the sum of the        *)
(* square-rooted input and the network output.                              *)
C7_SqrtThenSquare ==
    (call \in {"ResNext1d", "ResNext2d"}) =>
        /\ StemRan => \E q \in Refs : SqrtOfInput(q) /\ StemReads(q)
        /\ status = "returned" =>
              /\ Node(Current(out)).op = "pow(2)"
              /\ Node(Node(Current(out)).args[1]).op = "add"
              /\ SqrtOfInput(Node(Node(Current(out)).args[1]).args[1])

(* C7, amended: ResNext1d.forward applies a square root to the input before *)
(* the stem; its squaring statement is never reached, the forward raising   *)
(* at self.bottlenecks.  ResNext2d.forward applies neither a square root    *)
(* nor a square: the stem reads the input as given, and the forward returns *)
(* the sum of the network output (the sigmoid closing outc) and the input   *)
(* (in training mode on a single-element input batch normalisation raises   *)
(* ValueError instead).                                                     *)
C7_SqrtIn1dOnly ==
    /\ (call = "ResNext1d" /\ StemRan) => \E q \in Refs : SqrtOfInput(q) /\ StemReads(q)
    /\ (call = "ResNext1d" /\ Finished) =>
          /\ status = "raised"
          /\ pc = 546
          /\ \A ref \in Refs : Node(ref).op # "pow(2)"
    /\ (call = "ResNext2d" /\ StemRan) => StemReads(Input)
    /\ (call = "ResNext2d" /\ Finished) =>
          /\ \A ref \in Refs : Node(ref).op \notin {"pow(1/2)", "pow(2)"}
          /\ IF rt.training /\ Numel(args[1].shape) = 1
             THEN status = "raised" /\ rt.err = ValueError
             ELSE /\ status = "returned"
                  /\ Node(Current(out)).op = "add"
                  /\ Node(Node(Current(out)).args[1]).op = "sigmoid"
                  /\ Node(Node(Current(out)).args[1]).mod = <<"outc", "1">>
                  /\ Node(Current(out)).args[2] = Input

\* ResNext2d returned, and ResNext1d's stem ran: the witness is the 2-D return
C7_Witness ==
    /\ call = "ResNext2d"
    /\ status = "returned"
    /\ args[1].shape = <<2, 8, 9>>
    /\ StemReads(Input)

\* the top-level submodule a node belongs to
Top(path) == IF path = <<>> THEN "" ELSE path[1]

\* the submodule that allocated the buffer of ref
Owner(ref) == Top(Node(<<ref[1], 1>>).mod)

\* the nodes that read some version of a buffer allocated by submodule name
ReadersOf(name) ==
    {r \in Refs : \E i \in 1..Len(Node(r).args) : Owner(Node(r).args[i]) = name}

\* decoder stage name upsampled coarse and concatenated skip in front of it
UNet1d_decoded(name, coarse, skip) ==
    /\ \E u \in Written(<<name, "up">>, "conv_transpose") : Node(u).args = <<Current(coarse)>>
    /\ \E c \in Written(<<name>>, "cat") : Node(c).args[1] = Current(skip)

\* UNet1d.forward without lines 455-461: the stem, down1, up1 and outc
UNet1d_sliced ==
    Let(UNet1d_stmt(self, Before, [NoLocals EXCEPT !.x = args[1]], 453), LAMBDA a :
    Let(UNet1d_stmt(self, a.m, a.loc, 454), LAMBDA b :
    Let(UNet1d_stmt(self, b.m, b.loc, 462), LAMBDA c :
    UNet1d_stmt(self, c.m, c.loc, 463).m)))

(* C8: in UNet1d.forward up4, up3, up2 and up1 are called with the encoder  *)
(* outputs (n4,n3), (n3,n2), (n2,n1), (n1,n0); what up4, up3 and up2 return *)
(* is read by nothing outside the stage that wrote it; and the returned     *)
(* tensor is the one computed from n0 and n1 alone, by the stem, down1, up1 *)
(* and outc, whatever down2, down3, down4, center, up4, up3 and up2 did.    *)
C8_DecoderNotChained ==
    (call = "UNet1d" /\ status = "returned") =>
        /\ UNet1d_decoded("up4", loc.n4, loc.n3)
        /\ UNet1d_decoded("up3", loc.n3, loc.n2)
        /\ UNet1d_decoded("up2", loc.n2, loc.n1)
        /\ UNet1d_decoded("up1", loc.n1, loc.n0)
        /\ \A name \in {"up4", "up3", "up2"} :
               \A r \in ReadersOf(name) : Top(Node(r).mod) = name
        /\ Term(rt.heap, Current(out)) = Result(UNet1d_sliced)

\* UNet1d returned after all four decoder stages ran
C8_Witness ==
    /\ call = "UNet1d"
    /\ status = "returned"
    /\ args[1].shape[3] = 16
    /\ \A name \in {"up4", "up3", "up2", "up1"} : Written(<<name>>, "cat") # {}

\* the tensor the SE gate of a bottleneck was applied to
GateInput ==
    LET gated == Node(Node(<<out.id, 1>>).args[2])
    IN  IF call = "SENextBottleneck2d"
        THEN gated.args[1]
        ELSE Node(gated.args[1]).args[1]

(* C9: in SENextBottleneck2d.forward conv2 reads the block's input x and    *)
(* nothing outside conv1 reads conv1's output; in SENextBottleneck1d        *)
(* conv2 reads conv1's output.  In both, what the block returns is the      *)
(* in-place activation of shortcut + se(s), where s is conv2's output,      *)
(* pooled by self.pool iff stride > 1, and the shortcut path is the         *)
(* shortcut convolution's output if is_shortcut and x itself otherwise.     *)
C9_BottleneckDataflow ==
    /\ call = "SENextBottleneck2d" =>
          /\ \A c \in Written(<<"conv2", "conv">>, "conv") : Node(c).args = <<Input>>
          /\ \A r \in ReadersOf("conv1") : Top(Node(r).mod) = "conv1"
    /\ call = "SENextBottleneck1d" =>
          /\ \A c \in Written(<<"conv2", "conv">>, "conv") :
                /\ Owner(Node(c).args[1]) = "conv1"
                /\ Node(Node(c).args[1]).mod = <<"conv1", "activation">>
    /\ (call \in {"SENextBottleneck2d", "SENextBottleneck1d"} /\ status = "returned") =>
          /\ Written(<<"conv2", "conv">>, "conv") # {}
          /\ Current(out) = <<out.id, 2>>
          /\ Node(<<out.id, 2>>).op = "relu_"
          /\ Node(<<out.id, 2>>).mod = <<"activation">>
          /\ Node(<<out.id, 1>>).op = "add"
          /\ Node(<<out.id, 1>>).mod = <<>>
          /\ Node(Node(<<out.id, 1>>).args[2]).mod = <<"se">>
          /\ IF self.stride > 1
             THEN /\ Node(GateInput).mod = <<"pool">>
                  /\ Node(GateInput).op = self.pool
                  /\ Node(Node(GateInput).args[1]).mod = <<"conv2", "activation">>
             ELSE /\ Node(GateInput).mod = <<"conv2", "activation">>
                  /\ \A r \in Refs : Node(r).mod # <<"pool">>
          /\ IF self.is_shortcut
             THEN Owner(Node(<<out.id, 1>>).args[1]) = "shortcut"
             ELSE Node(<<out.id, 1>>).args[1] = Input

\* a strided SENextBottleneck2d with a shortcut returned
C9_Witness ==
    /\ call = "SENextBottleneck2d"
    /\ status = "returned"
    /\ self.stride = 2
    /\ self.is_shortcut
    /\ self.conv1.in_channels # self.conv1.out_channels
    /\ ReadersOf("conv1") # {}

(* C10: in Up2d.forward, for every x1 and x2, the pad step leaves the       *)
(* upsampled x1 with exactly the height and the width of x2, so that the    *)
(* channel concatenation with x2 is well-formed.                            *)
C10_PadMatchesSkip ==
    (call = "Up2d" /\ Finished) =>
        /\ \E p \in Written(<<>>, "pad") :
              /\ Node(p).shape[3] = args[2].shape[3]
              /\ Node(p).shape[4] = args[2].shape[4]
        /\ self.merge => Written(<<>>, "cat") # {}

\* the size differences the pad step of decoder stage path met: what the pad
\* wrote less what it read
PadDiffs(path) ==
    {Node(p).shape[3] - Node(Node(p).args[1]).shape[3] : p \in Written(path, "pad")}

\* the upsampled x1 of the Up1d call, and its difference to x2
C11_Upsampled == Written(<<"up">>, "upsample") \cup Written(<<"up">>, "conv_transpose")

C11_Diff == args[2].shape[3] - Node(CHOOSE u \in C11_Upsampled : TRUE).shape[3]

(* C11: in Up1d.forward the pad amounts are left = floor(diff / 2) and      *)
(* right = diff - left, so right >= left and left + right = diff; for every *)
(* signed diff the padded (or cropped) x1 has exactly the length of x2, and *)
(* the concatenation with x2 is made; in UNet1d.forward every Up1d call     *)
(* meets a diff of 0 or 1.                                                  *)
C11_PadSplit ==
    /\ (call = "Up1d" /\ Finished) =>
          /\ C11_Upsampled # {}
          /\ 2 * Up1d_pads(C11_Diff)[1] <= C11_Diff
          /\ C11_Diff < 2 * Up1d_pads(C11_Diff)[1] + 2
          /\ Up1d_pads(C11_Diff)[2] >= Up1d_pads(C11_Diff)[1]
          /\ Up1d_pads(C11_Diff)[1] + Up1d_pads(C11_Diff)[2] = C11_Diff
          /\ \E p \in Written(<<>>, "pad") :
                /\ Node(p).args[1] \in C11_Upsampled
                /\ Node(p).shape[3] = args[2].shape[3]
                /\ Node(p).shape[1] = args[1].shape[1]
                /\ Node(p).shape[2] = args[1].shape[2]
          /\ self.merge => Written(<<>>, "cat") # {}
    /\ call = "UNet1d" =>
          \A name \in {"up4", "up3", "up2", "up1"} : PadDiffs(<<name>>) \subseteq {0, 1}

\* an Up1d call whose upsampled x1 was longer than x2 by an odd amount, cropped
C11_Witness ==
    /\ call = "Up1d"
    /\ status = "returned"
    /\ C11_Upsampled # {}
    /\ C11_Diff = -1
    /\ self.merge
    /\ Written(<<>>, "cat") # {}

\* a channel gate was built with a reduction that does not divide in_channels
C12_NonDividing ==
    /\ call \in {"CSE2d", "CSE1d"}
    /\ Finished
    /\ self.in_channels % self.reduction # 0

(* C12: a CSE1d or CSE2d built with a reduction that does not divide        *)
(* in_channels fails at construction with a shape error: nothing of its     *)
(* forward runs, and none returns.                                          *)
C12_NonDividingFailsAtConstruction ==
    C12_NonDividing =>
        /\ status = "raised"
        /\ rt.err = ShapeError
        /\ Len(rt.heap) = 1

(* C12, amended: construction validates nothing.  For every reduction from  *)
(* 1 to in_channels, dividing or not, the gate is built with a squeezed     *)
(* width of floor(in_channels / reduction) >= 1, and its forward returns a  *)
(* tensor of the input's shape, the squeeze convolution having written that *)
(* many channels.                                                           *)
C12_FloorSqueezeRuns ==
    (call \in {"CSE2d", "CSE1d"} /\ Finished) =>
        /\ self.squeezed * self.reduction <= self.in_channels
        /\ self.in_channels < (self.squeezed + 1) * self.reduction
        /\ self.squeezed >= 1
        /\ status = "returned"
        /\ out.shape = args[1].shape
        /\ \E c \in Written(<<"se", "1">>, "conv") : Node(c).shape[2] = self.squeezed
        /\ \E c \in Written(<<"se", "3">>, "conv") : Node(c).shape[2] = self.in_channels

\* a CSE2d of 3 channels built with reduction 2 returned
C12_Witness ==
    /\ C12_NonDividing
    /\ call = "CSE2d"
    /\ self.in_channels = 3
    /\ self.reduction = 2
    /\ self.squeezed = 1
    /\ status = "returned"

\* path p begins path q
IsPrefix(p, q) == Len(p) <= Len(q) /\ SubSeq(q, 1, Len(p)) = p

\* the module whose forward runs the submodule at path
Parent(path) == SubSeq(path, 1, Len(path) - 1)

\* every in-place write is an activation, applied by a forward to a buffer that
\* an operation of that same forward allocated
C13_InPlaceOnOwn ==
    \A r \in Refs :
        r[2] >= 2 =>
            /\ Node(r).op = "relu_"
            /\ Node(r).args = <<(<<r[1], r[2] - 1>>)>>
            /\ Node(<<r[1], 1>>).op # "input"
            /\ IsPrefix(Parent(Node(r).mod), Node(<<r[1], 1>>).mod)

\* a buffer is read by another buffer's operation only in its final version:
\* nothing is written after it has been handed on
C13_ReadFinal ==
    \A r \in Refs :
        \A i \in 1..Len(Node(r).args) :
            Node(r).args[i][1] # r[1] =>
                Node(r).args[i][2] = Len(rt.heap[Node(r).args[i][1]])

\* the tensors the caller handed in hold the one version the caller wrote
C13_InputsIntact ==
    \A i \in 1..Len(args) :
        /\ Len(rt.heap[args[i].id]) = 1
        /\ Node(<<args[i].id, 1>>).op = "input"

\* the encoder outputs an architecture has recorded hold the versions their
\* stage wrote, all of them written by that stage
C13_EncoderIntact ==
    \A n \in {loc.n0, loc.n1, loc.n2, loc.n3} :
        n # None =>
            \A v \in 1..Len(rt.heap[n.id]) :
                Top(Node(<<n.id, v>>).mod) = Top(Node(<<n.id, 1>>).mod)

\* the only module state a forward touches is the running statistics of the
\* batch normalisations it ran, and those in training mode only
C13_StatsOnly ==
    rt.stats = IF rt.training THEN {Node(r).mod : r \in {q \in Refs : Node(q).op = "bn"}} ELSE {}

(* C13: no forward writes a tensor its caller handed in: every in-place     *)
(* write is an activation on a buffer the same forward allocated; the       *)
(* caller's inputs keep their one version; every buffer, the recorded       *)
(* encoder outputs among them, is read by later operations in the version   *)
(* its producer left; and the module is not changed by forward, the running *)
(* statistics of batch normalisation apart.                                 *)
C13_NoCallerWrite ==
    /\ [](status # "idle" =>
            /\ C13_InPlaceOnOwn
            /\ C13_ReadFinal
            /\ C13_InputsIntact
            /\ C13_EncoderIntact
            /\ C13_StatsOnly)
    /\ [][status = "running" => self' = self /\ args' = args]_vars

\* a UNet2d forward returned: in-place activations ran in every block and the
\* decoder read the encoder outputs
C13_Witness ==
    /\ call = "UNet2d"
    /\ status = "returned"
    /\ \E r \in Refs : r[2] = 2 /\ Top(Node(r).mod) = "down1"
    /\ \E c \in Written(<<"up1">>, "cat") : Node(c).args[1] = Current(loc.n0)
    /\ rt.stats # {}

\* the statements of UNet2d.forward at these lines, run in order from ml
RECURSIVE UNet2d_run(_, _)
UNet2d_run(ml, lines) ==
    IF lines = <<>> \/ ~Ok(ml.m) THEN ml
    ELSE Let(UNet2d_stmt(self, ml.m, ml.loc, Head(lines)), LAMBDA r :
         UNet2d_run(r, Tail(lines)))

\* UNet2d.forward without lines 501-504: the view, the log, the stem, down1,
\* up1, outc, the residual and the view back
UNet2d_sliced ==
    UNet2d_run(After(Before, [NoLocals EXCEPT !.x = args[1]]),
               <<496, 497, 498, 499, 500, 505, 506, 507, 508, 509>>).m

\* the stages whose results UNet2d.forward never reads
UNet2d_dead == {"down2", "down3", "up3", "up2"}

(* C14: what UNet2d.forward returns is computed from the input, n0 and n1   *)
(* alone, by the stem, down1, up1 and outc: nothing outside up3 and up2     *)
(* reads what they return, and the returned value is that of the forward    *)
(* with lines 501-504 removed.  Those stages are run all the same: a        *)
(* forward that returned ran each of them, and one that raised inside them  *)
(* returned nothing, also when the forward without them would have          *)
(* returned.                                                                *)
C14_OutputFromN0N1 ==
    /\ (call = "UNet2d" /\ status = "returned") =>
          /\ \A name \in {"up3", "up2"} :
                \A r \in ReadersOf(name) : Top(Node(r).mod) = name
          /\ \A r \in ReadersOf("down3") : Top(Node(r).mod) \in {"down3", "up3"}
          /\ \A r \in ReadersOf("down2") : Top(Node(r).mod) \in UNet2d_dead
          /\ \A name \in UNet2d_dead : \E r \in Refs : Top(Node(r).mod) = name
          /\ Ok(UNet2d_sliced)
          /\ Term(rt.heap, Current(out)) = Result(UNet2d_sliced)
    /\ (call = "UNet2d" /\ status = "raised") =>
          /\ out = None
          /\ Ok(UNet2d_sliced) => pc \in 501..504

\* a UNet2d forward on height 10 raised in up2, whose result nothing would
\* have read: without lines 501-504 it would have returned
C14_Witness ==
    /\ call = "UNet2d"
    /\ status = "raised"
    /\ args[1].shape = <<2, 10, 8>>
    /\ pc = 504
    /\ Ok(UNet2d_sliced)

====
